---- MODULE Spec2Model ----
(***************************************************************************)
(* Model of the Malaysian YouTube banking dashboard:                       *)
(*   pages/page1.py  the SQL sanitizer, the LLM-to-SQL chain and the       *)
(*                   Submit callback of the query assistant                *)
(*   pages/page2.py  the likes-and-views aggregation callback              *)
(*   pages/page3.py  the comment-insights callback                         *)
(* Texts are sequences of one-character strings, so that the sanitizer's   *)
(* pattern matching is computed character by character.                    *)
(***************************************************************************)
EXTENDS Integers, Sequences, FiniteSets

VARIABLES
    text,              \* page1: the argument of clean_sql_output
    trimmed,           \* page1: local cleaned after strip(), line 45
    cleaned,           \* page1: the value clean_sql_output returns
    recleaned,         \* page1: clean_sql_output applied to its own result
    stage,             \* page1: "raw", "clean", "reclean"
    pc,                \* page1: position of the query assistant
    user_question,     \* page1: State("user-question", "value")
    mode,              \* page1: State("query-mode", "value")
    llm,               \* page1: the LLM handle obtained by get_llm, or NoValue
    llm_output,        \* page1: the raw text the SQL-generation LLM call gave
    sql_query,         \* page1: result of the generation chain
    cleaned_query,     \* page1: answer_user_query's cleaned_query
    sql_response,      \* page1: what run_query returned
    calls,             \* page1: external calls made, in order
    raised,            \* page1: message of the exception raised in a step
    response,          \* page1: what answer_user_query returned
    outputs,           \* page1: what process_question returned
    manual_df,         \* page1: outcome of pd.read_sql in process_question
    COLLATE_MM,        \* page2: the video records, date coerced
    start_date,        \* page2: Input("date-range-picker", "start_date")
    end_date,          \* page2: Input("date-range-picker", "end_date")
    sort_by,           \* page2: Input("sort-toggle", "value")
    agg_df,            \* page2: the aggregated, sorted table
    num_videos,        \* page2: the KPI
    p2,                \* page2: "loaded", "shown"
    COLLATE_COMMENT,   \* page3: the comment records
    selected_handle,   \* page3: Input("handle-dropdown", "value")
    fig,               \* page3: the bars of the sentiment chart
    samples_section,   \* page3: the sample sections
    message,           \* page3: the paragraph returned instead of samples
    p3                 \* page3: "loaded", "shown"

sanVars == <<text, trimmed, cleaned, recleaned, stage>>
qryVars == <<pc, user_question, mode, llm, llm_output, sql_query,
             cleaned_query, sql_response, calls, raised, response, outputs,
             manual_df>>
p2Vars  == <<COLLATE_MM, start_date, end_date, sort_by, agg_df, num_videos, p2>>
p3Vars  == <<COLLATE_COMMENT, selected_handle, fig, samples_section, message, p3>>
vars    == <<sanVars, qryVars, p2Vars, p3Vars>>

NoValue == "None"
NoText == << "<None>" >>      \* Python's None where a text is expected

(***************************************************************************)
(* Bounds                                                                  *)
(***************************************************************************)
MaxPieces == 3       \* an input text is at most this many fragments
MaxVideos == 3       \* rows of the video table
MaxComments == 6     \* rows of the comment table

(***************************************************************************)
(* Texts                                                                   *)
(***************************************************************************)
\* "^" stands for the backtick, which a TLA+ string cannot hold
Tick == "^"
Fence == <<Tick, Tick, Tick>>
Label == <<"S", "Q", "L", " ", "Q", "u", "e", "r", "y", ":">>
Semi == ";"
Whitespace == {" ", "\n", "\t"}

\* The fragments input texts are built from: fence parts, the language tag in
\* both cases, the label whole and split (once and twice over, so that a
\* label can lie nested two deep within three fragments), blanks, the
\* terminator, other text.
LabelHead == <<"S", "Q", "L", " ", "Q", "u">>
LabelTail == <<"e", "r", "y", ":">>
Fragments ==
    { <<Tick>>, <<Tick, Tick>>, Fence,
      <<"s", "q", "l">>,
      Label,
      LabelHead, LabelTail,
      LabelHead \o LabelHead, LabelTail \o LabelTail,
      <<" ">>, <<Semi>>, <<"x">> }

RECURSIVE Texts(_)
Texts(n) ==
    IF n = 0 THEN { <<>> }
    ELSE LET prev == Texts(n - 1)
         IN  prev \cup { s \o f : s \in prev, f \in Fragments }

InputTexts == Texts(MaxPieces)

\* re.IGNORECASE over the letters of the pattern
Lower(c) ==
    CASE c = "S" -> "s"
      [] c = "Q" -> "q"
      [] c = "L" -> "l"
      [] OTHER -> c

\* t has the characters of pat at position i (pat compared as given)
HasAt(t, i, pat) ==
    /\ i + Len(pat) - 1 <= Len(t)
    /\ \A k \in 1..Len(pat) : t[i + k - 1] = pat[k]

\* as HasAt, ignoring letter case
HasAtIgnoreCase(t, i, pat) ==
    /\ i + Len(pat) - 1 <= Len(t)
    /\ \A k \in 1..Len(pat) : Lower(t[i + k - 1]) = Lower(pat[k])

Contains(t, pat) == \E i \in 1..Len(t) : HasAt(t, i, pat)

\* re.sub(r"^^^(sql)?", "", text, flags=re.IGNORECASE): leftmost matches, the
\* optional group greedy, scanning resumes after each match
RECURSIVE ReSubFenceFrom(_, _)
ReSubFenceFrom(t, i) ==
    IF i > Len(t) THEN <<>>
    ELSE IF HasAt(t, i, Fence)
         THEN IF HasAtIgnoreCase(t, i + 3, <<"s", "q", "l">>)
              THEN ReSubFenceFrom(t, i + 6)
              ELSE ReSubFenceFrom(t, i + 3)
         ELSE <<t[i]>> \o ReSubFenceFrom(t, i + 1)

ReSubFence(t) == ReSubFenceFrom(t, 1)

\* str.replace(old, ""): leftmost non-overlapping occurrences removed
RECURSIVE RemoveFrom(_, _, _)
RemoveFrom(t, old, i) ==
    IF i > Len(t) THEN <<>>
    ELSE IF HasAt(t, i, old)
         THEN RemoveFrom(t, old, i + Len(old))
         ELSE <<t[i]>> \o RemoveFrom(t, old, i + 1)

Remove(t, old) == RemoveFrom(t, old, 1)

\* str.strip()
RECURSIVE LStrip(_)
LStrip(t) ==
    IF t # <<>> /\ Head(t) \in Whitespace THEN LStrip(Tail(t)) ELSE t

RECURSIVE RStrip(_)
RStrip(t) ==
    IF t # <<>> /\ t[Len(t)] \in Whitespace
    THEN RStrip(SubSeq(t, 1, Len(t) - 1))
    ELSE t

Strip(t) == RStrip(LStrip(t))

\* str.endswith(";")
EndsWithSemi(t) == t # <<>> /\ t[Len(t)] = Semi

\* page1.py lines 42-45: the local cleaned just before the terminator test
Stripped(t) == Strip(Remove(Remove(ReSubFence(t), Fence), Label))

\* page1.py lines 46-47
TerminateAlways(t) == t \o <<Semi>>
Terminate(t) == IF ~EndsWithSemi(t) THEN t \o <<Semi>> ELSE t

\* page1.py lines 40-48
clean_sql_output(t) == Terminate(Stripped(t))

(***************************************************************************)
(* The sanitizer on its own: applied to a text, and again to its result    *)
(* (as answer_user_query and run_query apply it to sanitized text)         *)
(***************************************************************************)
SanInit ==
    /\ text \in InputTexts
    /\ trimmed = <<>>
    /\ cleaned = <<>>
    /\ recleaned = <<>>
    /\ stage = "raw"

Sanitize ==
    /\ stage = "raw"
    /\ trimmed' = Stripped(text)
    /\ cleaned' = clean_sql_output(text)
    /\ stage' = "clean"
    /\ UNCHANGED <<text, recleaned>>

SanitizeAgain ==
    /\ stage = "clean"
    /\ recleaned' = clean_sql_output(cleaned)
    /\ stage' = "reclean"
    /\ UNCHANGED <<text, trimmed, cleaned>>

(***************************************************************************)
(* page1: the query assistant                                              *)
(***************************************************************************)
\* The source's messages begin with an emoji, which a TLA+ string cannot
\* hold: "(x)" stands for the cross mark and "(!)" for the warning sign.
ErrorPrefix == "(x) Error: "
SqlErrorPrefix == "(x) SQL Error: "
PleaseEnter == "(!) Please enter a question."
ErrMsgs == { "timeout", "no such table" }
MainQuery ==
    << "W", "h", "a", "t", "?" >>   \* stands for the question of line 172

Modes == { "llm", "manual" }        \* page1.py lines 192-195
DefaultMode == "llm"                \* page1.py line 196

NoResponse == [sql |-> <<>>, answer |-> <<>>]
NoOutputs ==
    [ret |-> "-", sql_card |-> "", sql_body |-> <<>>,
     result_card |-> "", result_body |-> <<>>, error |-> <<>>]

\* Python truth value of the question: None and "" are false
Falsy(q) == q = NoText \/ q = <<>>

\* page1.py line 237
EmptyQuestionOutputs ==
    [NoOutputs EXCEPT !.ret = "tuple", !.error = << PleaseEnter >>]

\* page1.py line 246
SqlErrorOutputsGeneric(e) ==
    [NoOutputs EXCEPT !.ret = "tuple", !.error = << ErrorPrefix, e >>]
SqlErrorOutputs(e) ==
    [NoOutputs EXCEPT !.ret = "tuple", !.error = << SqlErrorPrefix, e >>]

\* page1.py lines 248-271; df_state is "rows" or "empty"
ManualOutputs(q, df_state) ==
    [NoOutputs EXCEPT
        !.ret = "tuple",
        !.sql_card = "Executed SQL (User-provided)",
        !.sql_body = q,
        !.result_card = "SQL Result (Formatted Table)",
        !.result_body = IF df_state = "empty"
                        THEN << "Query returned no rows." >>
                        ELSE << "DataTable" >>]

\* page1.py lines 240-297 with mode # "manual": the body of the if holds
\* every later statement of the try (all are indented under it, the LLM
\* branch after the manual branch's return), so control leaves the try
\* and the function ends without a return statement
FallThroughOutputs == [NoOutputs EXCEPT !.ret = "None"]

\* page1.py lines 283-293, what the LLM branch would return
LlmOutputs(r) ==
    [NoOutputs EXCEPT
        !.ret = "tuple",
        !.sql_card = "Generated SQL Query",
        !.sql_body = r.sql,
        !.result_card = "Answer",
        !.result_body = r.answer]

\* page1.py lines 159-164
ErrorResultBare(e) == [sql |-> <<>>, answer |-> << e >>]
ErrorResult(e) == [sql |-> <<>>, answer |-> << ErrorPrefix, e >>]

\* page1.py lines 154-157
OkResult(q, a) == [sql |-> q, answer |-> << a >>]

Call(step, arg) == [step |-> step, arg |-> arg]

QryInit ==
    /\ pc = "idle"
    /\ user_question = NoText
    /\ mode = DefaultMode
    /\ llm = NoValue
    /\ llm_output = NoText
    /\ sql_query = NoText
    /\ cleaned_query = NoText
    /\ sql_response = NoValue
    /\ calls = <<>>
    /\ raised = NoValue
    /\ response = NoResponse
    /\ outputs = NoOutputs
    /\ manual_df = NoValue

\* page1.py lines 234-297: the Submit callback, the whole handler
process_question(q, m, db) ==
    /\ pc = "idle"
    /\ user_question' = q
    /\ mode' = m
    /\ pc' = "returned"
    /\ UNCHANGED <<llm, llm_output, sql_query, cleaned_query, sql_response,
                   raised, response>>
    /\ IF Falsy(q)
       THEN /\ outputs' = EmptyQuestionOutputs
            /\ calls' = <<>>
            /\ manual_df' = NoValue
       ELSE IF m = "manual"
       THEN /\ calls' = << Call("pd.read_sql", clean_sql_output(q)) >>
            /\ manual_df' = db
            /\ outputs' =
                 IF db \in ErrMsgs
                 THEN SqlErrorOutputs(db)
                 ELSE ManualOutputs(clean_sql_output(q), db)
       ELSE /\ outputs' = FallThroughOutputs
            /\ calls' = <<>>
            /\ manual_df' = NoValue

Submit ==
    /\ pc = "idle"
    /\ \E q \in InputTexts \cup { NoText }, m \in Modes,
          db \in { "rows", "empty" } \cup ErrMsgs :
           process_question(q, m, db)

\* page1.py lines 170-173: standalone run, up to the entry of
\* answer_user_query
Main ==
    /\ pc = "idle"
    /\ llm' = "gpt-4o"
    /\ user_question' = MainQuery
    /\ calls' = << Call("get_llm", <<>>) >>
    /\ pc' = "gen"
    /\ UNCHANGED <<mode, llm_output, sql_query, cleaned_query, sql_response,
                   raised, response, outputs, manual_df>>

\* page1.py lines 159-164: the handler of answer_user_query
CaughtRetry(e) ==
    /\ raised' = e
    /\ response' = ErrorResult(e)
    /\ pc' = "gen"
Caught(e) ==
    /\ raised' = e
    /\ response' = ErrorResult(e)
    /\ pc' = "done"

\* page1.py lines 121-122: the generation chain (its last stage is the
\* sanitizer, line 110) and the second sanitizing
GenerateSql ==
    /\ pc = "gen"
    /\ calls' = Append(calls, Call("llm.sql", user_question))
    /\ UNCHANGED <<user_question, mode, llm, sql_response, outputs, manual_df>>
    /\ \/ \E raw \in InputTexts :
            /\ llm_output' = raw
            /\ sql_query' = clean_sql_output(raw)
            /\ cleaned_query' = clean_sql_output(clean_sql_output(raw))
            /\ pc' = "exec"
            /\ UNCHANGED <<raised, response>>
       \/ \E e \in ErrMsgs :
            /\ Caught(e)
            /\ UNCHANGED <<llm_output, sql_query, cleaned_query>>

\* page1.py line 125 with run_query, lines 51-60
ExecuteSql ==
    /\ pc = "exec"
    /\ calls' = Append(calls, Call("db.run", clean_sql_output(cleaned_query)))
    /\ UNCHANGED <<user_question, mode, llm, llm_output, sql_query,
                   cleaned_query, outputs, manual_df>>
    /\ \/ /\ sql_response' = "rows"
          /\ pc' = "answer"
          /\ UNCHANGED <<raised, response>>
       \/ \E e \in ErrMsgs :
            /\ Caught(e)
            /\ UNCHANGED sql_response

\* page1.py lines 128-157
GenerateAnswer ==
    /\ pc = "answer"
    /\ calls' = Append(calls, Call("llm.answer", cleaned_query))
    /\ UNCHANGED <<user_question, mode, llm, llm_output, sql_query,
                   cleaned_query, sql_response, outputs, manual_df>>
    /\ \/ /\ response' = OkResult(cleaned_query, "answer_text")
          /\ pc' = "done"
          /\ UNCHANGED raised
       \/ \E e \in ErrMsgs : Caught(e)

(***************************************************************************)
(* Tables: a table is a sequence of records. Neither callback depends on   *)
(* the order of the rows of its input table (groupby orders by key,        *)
(* sampling is random), so input tables are enumerated up to row order:    *)
(* the rows in non-decreasing rank.                                        *)
(***************************************************************************)
RECURSIVE SortedSeqs(_, _, _)
SortedSeqs(n, Recs, rk) ==
    IF n = 0 THEN { <<>> }
    ELSE { Append(p[1], p[2]) :
             p \in { q \in SortedSeqs(n - 1, Recs, rk) \X Recs :
                       \/ q[1] = <<>>
                       \/ rk[q[1][Len(q[1])]] <= rk[q[2]] } }

TablesUpTo(n, Recs, rk) == UNION { SortedSeqs(k, Recs, rk) : k \in 1..n }

IndexOf(seq, x) == CHOOSE i \in 1..Len(seq) : seq[i] = x

RECURSIVE SumCol(_, _)
SumCol(rows, col) ==
    IF rows = <<>> THEN 0 ELSE Head(rows)[col] + SumCol(Tail(rows), col)

(***************************************************************************)
(* page2: likes and views                                                  *)
(***************************************************************************)
NaT == 0                                \* pd.to_datetime(..., errors="coerce")
Unparseable == -1                       \* a date value that does not parse
DateValues == { 1, 2 }                  \* valid dates, as day numbers
ViewValues == { 1, 2 }
LikeValues == { 1, 2 }
HandleOrder == << "@cimb", "@maybank", "@rhb" >>    \* in key order
Handles == { HandleOrder[i] : i \in 1..Len(HandleOrder) }
SortOptions == { "views", "likes" }     \* page2.py lines 53-56

VideoRecords ==
    [Youtube_Handle : Handles, date : DateValues \cup { Unparseable },
     views : ViewValues, likes : LikeValues]

VideoRank ==
    [r \in VideoRecords |->
        IndexOf(HandleOrder, r.Youtube_Handle) * 1000
        + (r.date + 1) * 100 + r.views * 10 + r.likes]

\* page2.py line 29
ToDatetime(d) == IF d \in DateValues THEN d ELSE NaT

CoerceDates(rows) ==
    [i \in 1..Len(rows) |-> [rows[i] EXCEPT !.date = ToDatetime(@)]]

ValidDates(rows) == { rows[i].date : i \in 1..Len(rows) } \ { NaT }

\* page2.py lines 43-44: min() and max() skip NaT
MinDate(rows) == CHOOSE d \in ValidDates(rows) : \A e \in ValidDates(rows) : d <= e
MaxDate(rows) == CHOOSE d \in ValidDates(rows) : \A e \in ValidDates(rows) : d >= e

\* page2.py line 92: a comparison with NaT is False
InRangeExclusive(d, s, e) == d # NaT /\ d > s /\ d <= e
InRange(d, s, e) == d # NaT /\ d >= s /\ d <= e

DateFilter(rows, s, e) == SelectSeq(rows, LAMBDA r : InRange(r.date, s, e))

RowsOf(rows, h) == SelectSeq(rows, LAMBDA r : r.Youtube_Handle = h)

\* page2.py lines 95-102: one row per key, keys in ascending order
RECURSIVE GroupFrom(_, _)
GroupFrom(rows, k) ==
    IF k > Len(HandleOrder) THEN <<>>
    ELSE LET h  == HandleOrder[k]
             rs == RowsOf(rows, h)
         IN  (IF rs = <<>> THEN <<>>
              ELSE << [Youtube_Handle |-> h,
                       Sum_Likes |-> SumCol(rs, "likes"),
                       Sum_Views |-> SumCol(rs, "views"),
                       Count_Videos |-> Len(rs)] >>)
             \o GroupFrom(rows, k + 1)

GroupByHandle(rows) == GroupFrom(rows, 1)

\* page2.py line 106: sort_values(col, ascending=False); rows of equal value
\* keep their order
RECURSIVE InsertDesc(_, _, _)
InsertDesc(sorted, r, col) ==
    IF sorted = <<>> THEN << r >>
    ELSE IF Head(sorted)[col] >= r[col]
         THEN << Head(sorted) >> \o InsertDesc(Tail(sorted), r, col)
         ELSE << r >> \o sorted

RECURSIVE SortFrom(_, _, _)
SortFrom(done, rest, col) ==
    IF rest = <<>> THEN done
    ELSE SortFrom(InsertDesc(done, Head(rest), col), Tail(rest), col)

SortValuesUnsorted(rows, col) == rows
SortValues(rows, col) == SortFrom(<<>>, rows, col)

\* page2.py line 105
SortCol(sb) == IF sb = "views" THEN "Sum_Views" ELSE "Sum_Likes"

\* the module loads only when some date is valid: lines 43-44 format
\* min() and max(), which are NaT otherwise
P2Init ==
    /\ COLLATE_MM \in { CoerceDates(t) :
                          t \in TablesUpTo(MaxVideos, VideoRecords, VideoRank) }
    /\ ValidDates(COLLATE_MM) # {}
    /\ start_date = MinDate(COLLATE_MM)
    /\ end_date = MaxDate(COLLATE_MM)
    /\ sort_by = "views"
    /\ agg_df = <<>>
    /\ num_videos = 0
    /\ p2 = "loaded"

\* page2.py lines 90-179
update_barline_all(s, e, sb) ==
    LET df  == DateFilter(COLLATE_MM, s, e)
        agg == SortValues(GroupByHandle(df), SortCol(sb))
    IN  /\ start_date' = s
        /\ end_date' = e
        /\ sort_by' = sb
        /\ agg_df' = agg
        /\ num_videos' = SumCol(agg, "Count_Videos")
        /\ p2' = "shown"
        /\ UNCHANGED COLLATE_MM

UpdateBarline ==
    \E s \in DateValues, e \in DateValues, sb \in SortOptions :
        update_barline_all(s, e, sb)

(***************************************************************************)
(* page3: comment insights                                                 *)
(***************************************************************************)
SampleSize == 5
CommentHandles == { "@cimb", "@maybank" }
SentimentOrder == << "negative", "neutral", "positive" >>   \* in key order
Sentiments == { SentimentOrder[i] : i \in 1..Len(SentimentOrder) }
SampleOrder == << "positive", "neutral", "negative" >>      \* page3.py line 123
PromptMessage == "Please select a YouTube handle to view insights."
NoCommentsMessage == "No comments found"

CommentRecords == [Youtube_Handle : CommentHandles, sentiment : Sentiments]

CommentRank ==
    [r \in CommentRecords |->
        IndexOf(HandleOrder, r.Youtube_Handle) * 10
        + IndexOf(SentimentOrder, r.sentiment)]

\* row numbers of the comments of handle h with sentiment s
BucketAnyHandle(rows, h, s) ==
    { i \in 1..Len(rows) : rows[i].sentiment = s }
Bucket(rows, h, s) ==
    { i \in 1..Len(rows) :
        rows[i].Youtube_Handle = h /\ rows[i].sentiment = s }

\* page3.py lines 85-88 and 93: the counts of one handle, by sentiment
RECURSIVE BarsFrom(_, _, _)
BarsFrom(rows, h, k) ==
    IF k > Len(SentimentOrder) THEN <<>>
    ELSE LET s == SentimentOrder[k]
             n == Cardinality(Bucket(rows, h, s))
         IN  (IF n = 0 THEN <<>>
              ELSE << [sentiment |-> s, comment_count |-> n] >>)
             \o BarsFrom(rows, h, k + 1)

Bars(rows, h) == BarsFrom(rows, h, 1)

Min(a, b) == IF a < b THEN a ELSE b

\* page3.py line 132: the number of rows drawn
SampleCount(n) == Min(SampleSize, n)

\* page3.py line 132: DataFrame.sample draws k rows without replacement. The
\* order of the drawn rows, which is random, is not modelled: a draw is
\* given in ascending row number.
RECURSIVE DrawWithReplacement(_, _)
DrawWithReplacement(ids, k) ==
    IF k = 0 THEN { <<>> }
    ELSE { Append(p[1], p[2]) :
             p \in { q \in DrawWithReplacement(ids, k - 1) \X ids :
                       q[1] = <<>> \/ q[1][Len(q[1])] <= q[2] } }

RECURSIVE Draw(_, _)
Draw(ids, k) ==
    IF k = 0 THEN { <<>> }
    ELSE { Append(p[1], p[2]) :
             p \in { q \in Draw(ids, k - 1) \X ids :
                       q[1] = <<>> \/ q[1][Len(q[1])] < q[2] } }

\* page3.py lines 128 and 132: the rows df_sent.sample may return
Sampled(rows, h, s) ==
    LET b == Bucket(rows, h, s)
    IN  Draw(b, SampleCount(Cardinality(b)))

\* page3.py lines 127-157: the section of one sentiment, none for an empty
\* bucket
Section(s, drawn) ==
    IF drawn = <<>> THEN <<>> ELSE << [sentiment |-> s, rows |-> drawn] >>

P3Init ==
    /\ COLLATE_COMMENT \in TablesUpTo(MaxComments, CommentRecords, CommentRank)
    /\ selected_handle = NoValue
    /\ fig = <<>>
    /\ samples_section = <<>>
    /\ message = ""
    /\ p3 = "loaded"

\* page3.py lines 78-158
update_comment_insights(h) ==
    /\ selected_handle' = h
    /\ p3' = "shown"
    /\ UNCHANGED COLLATE_COMMENT
    /\ IF h = NoValue
       THEN /\ fig' = <<>>
            /\ samples_section' = <<>>
            /\ message' = PromptMessage
       ELSE IF \A i \in 1..Len(COLLATE_COMMENT) :
                  COLLATE_COMMENT[i].Youtube_Handle # h
       THEN /\ fig' = <<>>
            /\ samples_section' = <<>>
            /\ message' = NoCommentsMessage
       ELSE /\ fig' = Bars(COLLATE_COMMENT, h)
            /\ message' = ""
            /\ \E d1 \in Sampled(COLLATE_COMMENT, h, SampleOrder[1]),
                  d2 \in Sampled(COLLATE_COMMENT, h, SampleOrder[2]),
                  d3 \in Sampled(COLLATE_COMMENT, h, SampleOrder[3]) :
                 samples_section' =
                      Section(SampleOrder[1], d1)
                      \o Section(SampleOrder[2], d2)
                      \o Section(SampleOrder[3], d3)

UpdateCommentInsights ==
    \E h \in Handles \cup { NoValue } : update_comment_insights(h)

(***************************************************************************)
(* Specifications: one per page, the other pages at rest                   *)
(***************************************************************************)
SanRest ==
    /\ text = <<>>
    /\ trimmed = <<>>
    /\ cleaned = <<>>
    /\ recleaned = <<>>
    /\ stage = "raw"

P2Rest ==
    /\ COLLATE_MM = <<>>
    /\ start_date = NaT
    /\ end_date = NaT
    /\ sort_by = "views"
    /\ agg_df = <<>>
    /\ num_videos = 0
    /\ p2 = "unloaded"

P3Rest ==
    /\ COLLATE_COMMENT = <<>>
    /\ selected_handle = NoValue
    /\ fig = <<>>
    /\ samples_section = <<>>
    /\ message = ""
    /\ p3 = "unloaded"

\* the sanitizer as a function of its input
SanNext ==
    \/ Sanitize /\ UNCHANGED <<qryVars, p2Vars, p3Vars>>
    \/ SanitizeAgain /\ UNCHANGED <<qryVars, p2Vars, p3Vars>>
InitSanitizer == SanInit /\ QryInit /\ P2Rest /\ P3Rest
SpecSanitizer ==
    /\ InitSanitizer
    /\ [][SanNext]_vars

\* the query assistant
QryNext ==
    \/ Submit /\ UNCHANGED <<sanVars, p2Vars, p3Vars>>
    \/ Main /\ UNCHANGED <<sanVars, p2Vars, p3Vars>>
    \/ GenerateSql /\ UNCHANGED <<sanVars, p2Vars, p3Vars>>
    \/ ExecuteSql /\ UNCHANGED <<sanVars, p2Vars, p3Vars>>
    \/ GenerateAnswer /\ UNCHANGED <<sanVars, p2Vars, p3Vars>>
InitQuery == SanRest /\ QryInit /\ P2Rest /\ P3Rest
SpecQuery ==
    /\ InitQuery
    /\ [][QryNext]_vars

\* the likes-and-views page
P2Next == UpdateBarline /\ UNCHANGED <<sanVars, qryVars, p3Vars>>
InitVisuals == SanRest /\ QryInit /\ P2Init /\ P3Rest
SpecVisuals ==
    /\ InitVisuals
    /\ [][P2Next]_vars

\* the comment-insights page
P3Next == UpdateCommentInsights /\ UNCHANGED <<sanVars, qryVars, p2Vars>>
InitComments == SanRest /\ QryInit /\ P2Rest /\ P3Init
SpecComments ==
    /\ InitComments
    /\ [][P3Next]_vars

(***************************************************************************)
(* Properties                                                              *)
(***************************************************************************)

\* C1: sanitizing an already sanitized text returns the same text:
\* clean_sql_output(clean_sql_output(t)) = clean_sql_output(t).
C1_Idempotent == stage = "reclean" => recleaned = cleaned

\* C2: the text clean_sql_output returns holds no code-fence marker (three
\* consecutive backticks).
C2_NoFenceMarker == stage # "raw" => ~Contains(cleaned, Fence)

\* C3: for every input, the empty and the whitespace-only one included,
\* clean_sql_output returns a non-empty text whose last character is the
\* terminator, and it appends a terminator only when the trimmed text does
\* not already end with one.
C3_EndsWithTerminator ==
    stage # "raw" =>
        /\ cleaned # <<>>
        /\ cleaned[Len(cleaned)] = Semi
        /\ trimmed # <<>> =>
             trimmed[1] \notin Whitespace /\ trimmed[Len(trimmed)] \notin Whitespace
        /\ (trimmed # <<>> /\ trimmed[Len(trimmed)] = Semi) => cleaned = trimmed
        /\ (trimmed = <<>> \/ trimmed[Len(trimmed)] # Semi) =>
             cleaned = trimmed \o << Semi >>

\* a whitespace-only input has been sanitized to the bare terminator
C3_Witness ==
    /\ stage = "clean"
    /\ text # <<>>
    /\ \A i \in 1..Len(text) : text[i] \in Whitespace
    /\ cleaned = << Semi >>

\* C4: Submit with a non-empty question in mode "llm" obtains an LLM, calls
\* answer_user_query on the question and returns the generated-SQL card, the
\* answer card and an empty error text.
C4_LlmModeAnswers ==
    (pc = "returned" /\ ~Falsy(user_question) /\ mode = "llm") =>
        /\ llm # NoValue
        /\ \E i \in 1..Len(calls) :
             calls[i].step = "llm.sql" /\ calls[i].arg = user_question
        /\ outputs = LlmOutputs(response)

\* C5: answer_user_query never propagates an exception: when the
\* SQL-generation call, the database execution or the answer-generation call
\* raises, it returns with 'sql' empty and 'answer' the error prefix followed
\* by the exception's message.
C5_ErrorsAreCaught ==
    raised # NoValue =>
        /\ pc = "done"
        /\ response.sql = <<>>
        /\ response.answer = << ErrorPrefix, raised >>

\* the database execution raised after the SQL was generated
C5_Witness ==
    /\ raised = "no such table"
    /\ Len(calls) = 3
    /\ calls[3].step = "db.run"
    /\ pc = "done"

\* the callback ran over the full date range of the table
FullRange ==
    /\ p2 = "shown"
    /\ start_date = MinDate(COLLATE_MM)
    /\ end_date = MaxDate(COLLATE_MM)

\* the rows whose date parsed
ValidDated(rows) == SelectSeq(rows, LAMBDA r : r.date # NaT)

\* C6 as stated: over the full date range, the per-channel Sum_Views add up
\* to the views of all input records, and the Sum_Likes to their likes.
C6_FullRangeSumsEqualInput ==
    FullRange =>
        /\ SumCol(agg_df, "Sum_Views") = SumCol(COLLATE_MM, "views")
        /\ SumCol(agg_df, "Sum_Likes") = SumCol(COLLATE_MM, "likes")

\* C6 as amended: over the full date range, the per-channel Sum_Views add up
\* to the views of the input records whose date parsed to a valid date, and
\* the Sum_Likes to their likes; records whose date is NaT are left out.
C6_FullRangeSumsEqualValid ==
    FullRange =>
        /\ SumCol(agg_df, "Sum_Views") = SumCol(ValidDated(COLLATE_MM), "views")
        /\ SumCol(agg_df, "Sum_Likes") = SumCol(ValidDated(COLLATE_MM), "likes")

\* the full range over a table with an undated record, two dates and two
\* channels
C6_Witness ==
    /\ FullRange
    /\ start_date < end_date
    /\ Len(agg_df) >= 2
    /\ \E i \in 1..Len(COLLATE_MM) : COLLATE_MM[i].date = NaT

\* the channel handles of the records within the selected dates
HandlesInRange ==
    { COLLATE_MM[i].Youtube_Handle :
        i \in { j \in 1..Len(COLLATE_MM) :
                  /\ COLLATE_MM[j].date # NaT
                  /\ COLLATE_MM[j].date >= start_date
                  /\ COLLATE_MM[j].date <= end_date } }

\* C7: the aggregated table has exactly one row per channel handle occurring
\* in the date-filtered records, in non-increasing order of Sum_Views when
\* the metric is 'views' and of Sum_Likes when it is 'likes'.
C7_OneRowPerHandleSorted ==
    p2 = "shown" =>
        /\ { agg_df[i].Youtube_Handle : i \in 1..Len(agg_df) } = HandlesInRange
        /\ Len(agg_df) = Cardinality(HandlesInRange)
        /\ sort_by = "views" =>
             \A i \in 1..(Len(agg_df) - 1) :
                agg_df[i].Sum_Views >= agg_df[i + 1].Sum_Views
        /\ sort_by = "likes" =>
             \A i \in 1..(Len(agg_df) - 1) :
                agg_df[i].Sum_Likes >= agg_df[i + 1].Sum_Likes

\* sorted by likes, where the order by views would be the reverse
C7_Witness ==
    /\ p2 = "shown"
    /\ sort_by = "likes"
    /\ Len(agg_df) >= 2
    /\ agg_df[1].Sum_Likes > agg_df[2].Sum_Likes
    /\ agg_df[1].Sum_Views < agg_df[2].Sum_Views
    /\ agg_df[1].Youtube_Handle = HandleOrder[2]

\* the selected handle has comments
HandleFound ==
    /\ p3 = "shown"
    /\ \E i \in 1..Len(COLLATE_COMMENT) :
         COLLATE_COMMENT[i].Youtube_Handle = selected_handle

\* the comments of the selected handle with sentiment s
SelectedWith(s) ==
    { i \in 1..Len(COLLATE_COMMENT) :
        /\ COLLATE_COMMENT[i].Youtube_Handle = selected_handle
        /\ COLLATE_COMMENT[i].sentiment = s }

\* C8: for the selected handle and each sentiment, the number of samples
\* shown is min(5, number of that handle's comments with that sentiment); the
\* samples are pairwise distinct rows of that handle and sentiment, and a
\* sentiment with no rows has no section.
C8_SamplesPerSentiment ==
    HandleFound =>
        \A s \in Sentiments :
            LET n    == Cardinality(SelectedWith(s))
                secs == { k \in 1..Len(samples_section) :
                            samples_section[k].sentiment = s }
            IN  /\ n = 0 => secs = {}
                /\ n > 0 =>
                     /\ Cardinality(secs) = 1
                     /\ \A k \in secs :
                          LET rows == samples_section[k].rows
                          IN  /\ Len(rows) = (IF n < 5 THEN n ELSE 5)
                              /\ \A i \in 1..Len(rows) : rows[i] \in SelectedWith(s)
                              /\ \A i, j \in 1..Len(rows) :
                                   i # j => rows[i] # rows[j]

\* five samples drawn from a bucket of more than five rows, another sentiment
\* having none
C8_Witness ==
    /\ HandleFound
    /\ Len(samples_section) = 1
    /\ Len(samples_section[1].rows) = 5
    /\ Cardinality(SelectedWith(samples_section[1].sentiment)) > 5

\* C9: for a selected handle with comments the chart has one bar per
\* sentiment occurring among that handle's comments, each bar counting the
\* comments of that handle and sentiment only; with no handle selected the
\* result is an empty figure and the prompt, nothing aggregated.
C9_BarsCountSelectedHandle ==
    /\ (p3 = "shown" /\ selected_handle = NoValue) =>
         fig = <<>> /\ samples_section = <<>> /\ message = PromptMessage
    /\ HandleFound =>
         /\ { fig[k].sentiment : k \in 1..Len(fig) }
              = { s \in Sentiments : SelectedWith(s) # {} }
         /\ \A k, l \in 1..Len(fig) :
              k # l => fig[k].sentiment # fig[l].sentiment
         /\ \A k \in 1..Len(fig) :
              fig[k].comment_count = Cardinality(SelectedWith(fig[k].sentiment))

\* two bars for the selected handle while another handle has comments of a
\* sentiment the selected one has too
C9_Witness ==
    /\ HandleFound
    /\ Len(fig) >= 2
    /\ \E i \in 1..Len(COLLATE_COMMENT) :
         /\ COLLATE_COMMENT[i].Youtube_Handle # selected_handle
         /\ SelectedWith(COLLATE_COMMENT[i].sentiment) # {}

\* C10: clean_sql_output only removes fence markers and a leading label,
\* trims and appends the terminator; in particular a text without any
\* backtick that does not begin with the label comes back trimmed and
\* terminated, an occurrence of the label further on kept.
C10_OnlyLeadingLabelRemoved ==
    (/\ stage # "raw"
     /\ ~Contains(text, << Tick >>)
     /\ ~HasAt(Strip(text), 1, Label)) =>
        cleaned = Terminate(Strip(text))

\* the external steps of one run of answer_user_query from the standalone
\* entry, in the order the claim gives them
ExternalOrder == << "get_llm", "llm.sql", "db.run", "llm.answer" >>

\* C11: within one call of answer_user_query the external steps occur in the
\* order SQL-generation LLM call, database execution, answer-generation LLM
\* call; each is attempted at most once, and only when every earlier step
\* completed without an exception.
C11_StepsInOrderOnce ==
    [][ (pc \in { "gen", "exec", "answer", "done" } /\ calls' # calls) =>
            /\ raised = NoValue
            /\ Len(calls') = Len(calls) + 1
            /\ Len(calls') <= Len(ExternalOrder)
            /\ \A i \in 1..Len(calls') : calls'[i].step = ExternalOrder[i]
      ]_vars

\* all three steps were made, none raising
C11_Witness ==
    /\ pc = "done"
    /\ raised = NoValue
    /\ Len(calls) = 4
    /\ calls[2].step = "llm.sql"
    /\ calls[3].step = "db.run"
    /\ calls[4].step = "llm.answer"

\* C12: in manual mode with a non-empty question, process_question never
\* invokes the LLM and executes the sanitized user text against the database
\* exactly once; when that execution raises, the SQL and result outputs are
\* empty and the error begins with the SQL-error prefix; with an empty or
\* missing question, in any mode, it returns two empty outputs and the
\* please-enter message without contacting the database or the LLM.
C12_ManualModeAndEmptyQuestion ==
    pc = "returned" =>
        /\ Falsy(user_question) =>
             /\ calls = <<>>
             /\ llm = NoValue
             /\ outputs.ret = "tuple"
             /\ outputs.sql_card = "" /\ outputs.sql_body = <<>>
             /\ outputs.result_card = "" /\ outputs.result_body = <<>>
             /\ outputs.error = << PleaseEnter >>
        /\ (~Falsy(user_question) /\ mode = "manual") =>
             /\ llm = NoValue
             /\ Len(calls) = 1
             /\ calls[1].step = "pd.read_sql"
             /\ calls[1].arg = clean_sql_output(user_question)
             /\ manual_df \in ErrMsgs =>
                  /\ outputs.ret = "tuple"
                  /\ outputs.sql_card = "" /\ outputs.sql_body = <<>>
                  /\ outputs.result_card = "" /\ outputs.result_body = <<>>
                  /\ Len(outputs.error) >= 1
                  /\ outputs.error[1] = SqlErrorPrefix

\* a manual query whose text the sanitizer changed was executed and raised
C12_Witness ==
    /\ pc = "returned"
    /\ mode = "manual"
    /\ ~Falsy(user_question)
    /\ manual_df = "no such table"
    /\ Len(calls) = 1
    /\ calls[1].arg # user_question
    /\ outputs.error = << SqlErrorPrefix, "no such table" >>

\* C13: when answer_user_query succeeds, the SQL text it reports in the
\* 'sql' field is exactly the text run_query executed against the database.
C13_ReportedIsExecuted ==
    (pc = "done" /\ raised = NoValue) =>
        \E i \in 1..Len(calls) :
            calls[i].step = "db.run" /\ calls[i].arg = response.sql

====
